---- MODULE Spec2Model ----
(***************************************************************************)
(* Model of the stateful examples of the repository:                       *)
(*   - CacheService          (src/unnamed/part_001, lines 599-871)         *)
(*   - AuthGuard/AuthService (src/guards/auth.guard.ts)                    *)
(*   - NotificationService   (src/services/notification.service - Copy -   *)
(*                            Copy - Copy.ts)                              *)
(*   - ExtendedApiService    (src/services/extended-api.service - Copy     *)
(*                            (6).ts)                                      *)
(*                                                                         *)
(* Time is counted in units of 5 minutes (300000 ms): every duration the   *)
(* two classes compare against (5, 10, 30 and 60 minutes) is a whole       *)
(* number of units.  The one-minute interval timers are modelled as able   *)
(* to fire at any clock reading.                                           *)
(***************************************************************************)
EXTENDS Integers, Sequences, FiniteSets, TLC

VARIABLES
    now,        \* the clock read by new Date()
    cache,      \* CacheService.cache: the Map, as the sequence of its items in insertion order
    storage,    \* localStorage['cache-service']: {} (no item) or {serialised entries}
    watch,      \* history: {} or one watched set(k, v, ttl) whose entry was since neither
                \* overwritten, deleted, cleared nor evicted
    ops,        \* the number of steps taken so far
    last,       \* the cache operation that completed last, with what it returned
    gAuth,      \* AuthGuard: the AuthState handed to validateAuthState
    gRoute,     \* AuthGuard: the route data: {} when undefined, else {routeData}
    gResult,    \* AuthGuard: {} before the check, then {what validateAuthState did}
    svc,        \* AuthService and its browser: the AuthState, localStorage['auth-state'],
                \* the pending refresh timeouts, the two timer fields
    calls,      \* AuthService: the calls suspended on their HTTP request
    aLast,      \* AuthService: the step taken last, with what it handed its caller
    pending,    \* CacheService: the getOrSet() calls whose factory has not emitted yet
    chk,        \* AuthGuard: the subscription to the Observable checkAuthentication returned
    notifications,  \* NotificationService.notifications$.value, newest first
    autoDismiss,    \* NotificationService: the timer(duration) subscriptions still open
    nLast,          \* NotificationService: the step taken last
    loadingSubject, \* ExtendedApiService.loadingSubject.value
    requests,       \* ExtendedApiService: the executeRequest calls that have not settled
    xLast           \* ExtendedApiService: the step taken last

cacheVars == <<cache, storage, watch, ops, last>>
guardVars == <<gAuth, gRoute, gResult>>
authVars == <<svc, calls, aLast>>
notifVars == <<notifications, autoDismiss, nLast>>
apiVars == <<loadingSubject, requests, xLast>>
\* what the steps of the cache, of the AuthService and of validateAuthState leave alone
sideVars == <<chk, notifVars, apiVars>>
vars ==
    <<now, cache, storage, watch, ops, last, gAuth, gRoute, gResult, svc, calls, aLast,
      pending, chk, notifications, autoDismiss, nLast, loadingSubject, requests, xLast>>

(***************************************************************************)
(* Bounds of the model.                                                    *)
(***************************************************************************)
\* config.maxSize (100 in the source), scaled down
maxSize == 2
\* the number of steps (calls, timer firings, clock ticks) of a run: it also caps the
\* clock and every accessCount
MaxOps == 6

\* config.defaultTtl: 5 * 60 * 1000 ms, one unit
defaultTtl == 1

\* AuthGuard.isTokenExpired: bufferTime = 5 * 60 * 1000 ms
bufferTime == 1
\* AuthGuard.isSessionExpired: maxInactiveTime = 30 * 60 * 1000 ms
maxInactiveTime == 6
\* AuthGuard.hasSecureAccess: secureAccessWindow = 60 * 60 * 1000 ms
secureAccessWindow == 12

Keys == 1 .. (maxSize + 1)
\* the ttl argument of set(): {} when omitted, else {ttl}
TtlArgs == {{}, {-1}, {0}, {2}}

(***************************************************************************)
(* The Map<string, CacheItem>: a sequence of items, unique by key, in      *)
(* insertion order (the order Map iterates in).                            *)
(***************************************************************************)
\* the items of map m under key k, as a set of at most one item (Map.get)
SelectKey(m, k) == { m[i] : i \in { j \in 1 .. Len(m) : m[j].key = k } }

MapHas(m, k) == \E i \in 1 .. Len(m) : m[i].key = k

\* Map.set: an existing key keeps its position, a new key goes last
MapSet(m, k, item) ==
    IF MapHas(m, k)
    THEN [i \in 1 .. Len(m) |-> IF m[i].key = k THEN item ELSE m[i]]
    ELSE Append(m, item)

\* Map.delete
MapDelete(m, k) == SelectSeq(m, LAMBDA it : it.key # k)

MapKeys(m) == { m[i].key : i \in 1 .. Len(m) }

\* private isExpired(item): new Date() > item.expiresAt
isExpired(item, t) == t > item.expiresAt

\* Array.prototype.sort with the comparator a.lastAccessed - b.lastAccessed: a stable
\* sort, entries of equal lastAccessed keep the order of the Map
RECURSIVE SortByLastAccessed(_)
SortByLastAccessed(m) ==
    IF Len(m) <= 1 THEN m
    ELSE LET rest == SortByLastAccessed(SubSeq(m, 1, Len(m) - 1))
             x == m[Len(m)]
             n == Cardinality({ i \in 1 .. Len(rest) : rest[i].lastAccessed <= x.lastAccessed })
         IN  SubSeq(rest, 1, n) \o <<x>> \o SubSeq(rest, n + 1, Len(rest))

\* a plausible slip: the bound is never enforced
enforceMaxSize_none(m) == m

\* a plausible slip: the bound is enforced from maxSize on, not above it
enforceMaxSize_atBound(m) ==
    IF Len(m) < maxSize THEN m
    ELSE LET items == SortByLastAccessed(m)
             itemsToRemove == { items[i].key : i \in 1 .. (Len(m) - maxSize + 1) }
         IN  SelectSeq(m, LAMBDA it : it.key \notin itemsToRemove)

\* private enforceMaxSize()
enforceMaxSize(m) ==
    IF Len(m) <= maxSize THEN m
    ELSE LET items == SortByLastAccessed(m)
             itemsToRemove == { items[i].key : i \in 1 .. (Len(m) - maxSize) }
         IN  SelectSeq(m, LAMBDA it : it.key \notin itemsToRemove)

\* const expirationTime = ttl || this.config.defaultTtl: an omitted ttl and a ttl of 0
\* are both falsy
expirationTime(ttlArg) ==
    IF ttlArg = {} \/ ttlArg = {0} THEN defaultTtl ELSE CHOOSE x \in ttlArg : TRUE

\* a plausible slip: the ttl is not added to the clock reading
newItem_noTtl(k, d, ttlArg, t) ==
    [key |-> k, data |-> d, timestamp |-> t, expiresAt |-> t, accessCount |-> 0,
     lastAccessed |-> t]

\* the item set() builds
newItem(k, d, ttlArg, t) ==
    [key |-> k, data |-> d, timestamp |-> t, expiresAt |-> t + expirationTime(ttlArg),
     accessCount |-> 0, lastAccessed |-> t]


\* a plausible slip: a key that is present keeps its entry
set_keepsExisting(m, k, d, ttlArg, t) ==
    IF MapHas(m, k) THEN m ELSE enforceMaxSize(MapSet(m, k, newItem(k, d, ttlArg, t)))

\* set(key, data, ttl): the Map after cache.set and enforceMaxSize
set(m, k, d, ttlArg, t) == enforceMaxSize(MapSet(m, k, newItem(k, d, ttlArg, t)))

\* get(key): the Map after the call and the value returned ("null" for null)
get(m, k, t) ==
    LET found == SelectKey(m, k) IN
    IF found = {} THEN [cache |-> m, ret |-> "null"]
    ELSE LET item == CHOOSE it \in found : TRUE IN
         IF isExpired(item, t)
         THEN [cache |-> MapDelete(m, k), ret |-> "null"]
         ELSE [cache |-> MapSet(m, k, [item EXCEPT !.accessCount = @ + 1, !.lastAccessed = t]),
               ret |-> item.data]

\* has(key)
has(m, k, t) ==
    LET found == SelectKey(m, k) IN
    IF found = {} THEN [cache |-> m, ret |-> "false"]
    ELSE LET item == CHOOSE it \in found : TRUE IN
         IF isExpired(item, t)
         THEN [cache |-> MapDelete(m, k), ret |-> "false"]
         ELSE [cache |-> m, ret |-> "true"]

\* private cleanup(): the Map without the items with now > expiresAt
cleanup(m, t) == SelectSeq(m, LAMBDA it : ~(t > it.expiresAt))

\* Date.toISOString and new Date(string): a millisecond timestamp survives the round trip
toISOString(t) == <<"iso", t>>
newDate(s) == s[2]

\* the array saveToStorage() serialises
serialise(m) ==
    [i \in 1 .. Len(m) |->
        [key |-> m[i].key, data |-> m[i].data, accessCount |-> m[i].accessCount,
         timestamp |-> toISOString(m[i].timestamp),
         expiresAt |-> toISOString(m[i].expiresAt),
         lastAccessed |-> toISOString(m[i].lastAccessed)]]

\* private saveToStorage(): the value of localStorage['cache-service'] afterwards
\* (setItem is taken to succeed)
saveToStorage(m) == {serialise(m)}

\* private loadFromStorage(): the Map the constructor builds from the stored array
RECURSIVE loadEntries(_, _, _)
loadEntries(parsed, m, t) ==
    IF parsed = <<>> THEN m
    ELSE LET e == Head(parsed)
             expiresAt == newDate(e.expiresAt)
             cacheItem == [key |-> e.key, data |-> e.data, accessCount |-> e.accessCount,
                           timestamp |-> newDate(e.timestamp), expiresAt |-> expiresAt,
                           lastAccessed |-> newDate(e.lastAccessed)]
         IN  loadEntries(Tail(parsed), IF expiresAt > t THEN MapSet(m, e.key, cacheItem) ELSE m, t)

loadFromStorage(st, t) ==
    IF st = {} THEN <<>> ELSE loadEntries(CHOOSE x \in st : TRUE, <<>>, t)

(***************************************************************************)
(* The operations of CacheService as steps.  last records the completed    *)
(* call: op, key, what it returned (ret; n for size()) and, for set(), the *)
(* items enforceMaxSize removed.                                           *)
(***************************************************************************)
Completed(op, k, ret, n, evicted) ==
    [op |-> op, key |-> k, ret |-> ret, n |-> n, evicted |-> evicted]

\* the value a set() stores is one the key does not hold already
FreshData(k) == IF \E it \in SelectKey(cache, k) : it.data = "v1" THEN {"v2"} ELSE {"v1"}

\* one more step of the cache is taken; the guard and the AuthService do not move
Step == ops < MaxOps /\ ops' = ops + 1 /\ UNCHANGED <<guardVars, authVars, sideVars>>

\* such a step that is not one of getOrSet()
Call == Step /\ UNCHANGED pending

MapItems(m) == { m[i] : i \in 1 .. Len(m) }

\* a watched set() stays of interest while a get() may still be required to answer
\* for it: forever for ttl <= 0, else until the clock reaches at + ttl
Watched(w, t) == t < w.at + w.ttl

CacheSet(k, d, ttlArg) ==
    LET after == set(cache, k, d, ttlArg, now)
        gone == (MapKeys(cache) \cup {k}) \ MapKeys(after)
        kept == { w \in watch : w.key # k /\ w.key \notin gone }
        this == IF ttlArg = {} \/ k \in gone THEN {}
                ELSE {[key |-> k, data |-> d, at |-> now, ttl |-> CHOOSE x \in ttlArg : TRUE]}
    IN  /\ Call
        /\ cache' = after
        /\ storage' = saveToStorage(after)
        /\ watch' \in {kept, this}
        /\ last' = Completed("set", k, "void", 0,
                             { it \in MapItems(cache) : it.key \notin MapKeys(after) })
        /\ UNCHANGED now

CacheGet(k) ==
    LET r == get(cache, k, now) IN
    /\ Call
    /\ cache' = r.cache
    /\ last' = Completed("get", k, r.ret, 0, {})
    /\ UNCHANGED <<now, storage, watch>>

CacheHas(k) ==
    LET r == has(cache, k, now) IN
    /\ Call
    /\ cache' = r.cache
    /\ last' = Completed("has", k, r.ret, 0, {})
    /\ UNCHANGED <<now, storage, watch>>

\* delete(key)
CacheDelete(k) ==
    LET deleted == MapHas(cache, k)
        after == MapDelete(cache, k)
    IN  /\ Call
        /\ cache' = after
        /\ storage' = IF deleted THEN saveToStorage(after) ELSE storage
        /\ watch' = { w \in watch : w.key # k }
        /\ last' = Completed("delete", k, IF deleted THEN "true" ELSE "false", 0, {})
        /\ UNCHANGED now

\* clear()
CacheClear ==
    /\ Call
    /\ cache' = <<>>
    /\ storage' = saveToStorage(<<>>)
    /\ watch' = {}
    /\ last' = Completed("clear", 0, "void", 0, {})
    /\ UNCHANGED now

\* the interval timer of startCleanupTimer() fires: cleanup()
CacheCleanup ==
    LET after == cleanup(cache, now) IN
    /\ Call
    /\ cache' = after
    /\ storage' = IF after # cache THEN saveToStorage(after) ELSE storage
    /\ last' = Completed("cleanup", 0, "void", 0, {})
    /\ UNCHANGED <<now, watch>>

\* size(): cleanup(), then the size of the Map
CacheSize ==
    LET after == cleanup(cache, now) IN
    /\ Call
    /\ cache' = after
    /\ storage' = IF after # cache THEN saveToStorage(after) ELSE storage
    /\ last' = Completed("size", 0, "void", Len(after), {})
    /\ UNCHANGED <<now, watch>>

\* the page is reloaded: a new CacheService is constructed and loads from storage
CacheConstructor ==
    /\ Call
    /\ cache' = loadFromStorage(storage, now)
    /\ watch' = {}
    /\ last' = Completed("load", 0, "void", 0, {})
    /\ UNCHANGED <<now, storage>>

\* the clock advances
Tick ==
    /\ Call
    /\ now' = now + 1
    /\ watch' = { w \in watch : Watched(w, now') }
    /\ last' = Completed("tick", 0, "void", 0, {})
    /\ UNCHANGED <<cache, storage>>

\* a CacheService just constructed on an empty storage
CacheIdle ==
    /\ cache = <<>>
    /\ storage = {}
    /\ watch = {}
    /\ pending = {}
    /\ ops = 0
    /\ last = Completed("load", 0, "void", 0, {})

CacheNext ==
    \/ \E k \in Keys, ttlArg \in TtlArgs : \E d \in FreshData(k) : CacheSet(k, d, ttlArg)
    \/ \E k \in Keys : CacheGet(k)
    \/ \E k \in Keys : CacheHas(k)
    \/ \E k \in Keys : CacheDelete(k)
    \/ CacheClear
    \/ CacheCleanup
    \/ CacheSize
    \/ CacheConstructor
    \/ Tick

(***************************************************************************)
(* CacheService.getOrSet: the factory is called when get() finds nothing,  *)
(* and what it emits later is stored by the tap.  Each caller is a         *)
(* subscriber of the Observable its call returned.                         *)
(***************************************************************************)
Callers == {1, 2}

\* what the factory of a caller emits
Supplied(caller) == IF caller = 1 THEN "v1" ELSE "v2"

\* getOrSet(key, factory, ttl) up to its return: of(cached), or the factory's Observable
CacheGetOrSet(caller, k, ttlArg) ==
    LET cached == get(cache, k, now) IN
    /\ Step
    /\ \A p \in pending : p.caller # caller
    /\ cache' = cached.cache
    /\ pending' = IF cached.ret # "null" THEN pending
                  ELSE pending \cup {[caller |-> caller, key |-> k, ttlArg |-> ttlArg]}
    /\ last' = Completed("getOrSet", k, IF cached.ret # "null" THEN cached.ret ELSE "factory",
                         caller, {})
    /\ UNCHANGED <<now, storage, watch>>

\* the factory's Observable emits: tap(data => this.set(key, data, ttl))
CacheFactoryEmits(p) ==
    LET after == set(cache, p.key, Supplied(p.caller), p.ttlArg, now)
        gone == (MapKeys(cache) \cup {p.key}) \ MapKeys(after)
    IN  /\ Step
        /\ p \in pending
        /\ cache' = after
        /\ storage' = saveToStorage(after)
        /\ watch' = { w \in watch : w.key # p.key /\ w.key \notin gone }
        /\ pending' = pending \ {p}
        /\ last' = Completed("factoryEmitted", p.key, Supplied(p.caller), p.caller,
                             { it \in MapItems(cache) : it.key \notin MapKeys(after) })
        /\ UNCHANGED now

\* the factory's Observable errors: the tap stores nothing
CacheFactoryFails(p) ==
    /\ Step
    /\ p \in pending
    /\ pending' = pending \ {p}
    /\ last' = Completed("factoryFailed", p.key, "error", p.caller, {})
    /\ UNCHANGED <<now, cache, storage, watch>>

\* getOrSet() among the calls that can remove or replace what it stored
GetOrSetNext ==
    \/ \E caller \in Callers, k \in Keys, ttlArg \in TtlArgs : CacheGetOrSet(caller, k, ttlArg)
    \/ \E p \in pending : CacheFactoryEmits(p)
    \/ \E p \in pending : CacheFactoryFails(p)
    \/ \E k \in Keys : CacheDelete(k)
    \/ Tick

(***************************************************************************)
(* AuthGuard.validateAuthState (src/guards/auth.guard.ts).  A nullable     *)
(* field is {} for null and {value} otherwise.                             *)
(***************************************************************************)
\* what a check that fails logs and shows before it returns false, and what remains
\* when every check passed
Denied(reason, logs, shown) ==
    [valid |-> FALSE, reason |-> reason, logs |-> logs, notifications |-> shown]
Allowed == [valid |-> TRUE, reason |-> "none", logs |-> <<>>, notifications |-> <<>>]

\* private isTokenExpired(expiresAt)
isTokenExpired(expiresAt, t) ==
    IF expiresAt = {} THEN TRUE
    ELSE \E e \in expiresAt : t >= e - bufferTime

\* private isSessionExpired(lastActivity)
isSessionExpired(lastActivity, t) ==
    IF lastActivity = {} THEN FALSE
    ELSE \E a \in lastActivity : (t - a) > maxInactiveTime

\* private hasRequiredRoles(user, requiredRoles)
hasRequiredRoles(user, requiredRoles) ==
    IF requiredRoles = {} THEN TRUE
    ELSE \A role \in requiredRoles : role \in user.roles

\* private hasRequiredPermissions(user, requiredPermissions)
hasRequiredPermissions(user, requiredPermissions) ==
    IF requiredPermissions = {} THEN TRUE
    ELSE \A permission \in requiredPermissions : permission \in user.permissions

\* private hasSecureAccess(authState)
hasSecureAccess(authState, t) ==
    IF authState.loginTime = {} THEN FALSE
    ELSE \E l \in authState.loginTime : (t - l) < secureAccessWindow

\* routeData?.requiredRoles && ...: the field of the route data, {} when the route data
\* or the field is undefined, else {value}
RouteField(routeData, f) == UNION { r[f] : r \in routeData }

\* a plausible slip: the token is checked before the account
validateAuthState_tokenFirst(authState, routeData, t) ==
    IF ~authState.isAuthenticated \/ authState.user = {}
    THEN Denied("NotAuthenticated", <<"User not authenticated">>, <<>>)
    ELSE LET user == CHOOSE u \in authState.user : TRUE IN
    IF isTokenExpired(authState.expiresAt, t)
    THEN Denied("TokenExpired", <<"Token expired">>, <<>>)
    ELSE IF ~user.isActive
    THEN Denied("AccountInactive", <<"Inactive user attempted access">>,
                <<"Account Suspended">>)
    ELSE IF isSessionExpired(authState.lastActivity, t)
    THEN Denied("SessionInactive", <<"Session expired due to inactivity">>,
                <<"Session Expired">>)
    ELSE IF \E rr \in RouteField(routeData, "requiredRoles") : ~hasRequiredRoles(user, rr)
    THEN Denied("InsufficientRole", <<"User lacks required roles">>, <<>>)
    ELSE IF \E rp \in RouteField(routeData, "requiredPermissions") :
                ~hasRequiredPermissions(user, rp)
    THEN Denied("InsufficientPermission", <<"User lacks required permissions">>, <<>>)
    ELSE IF (\E rs \in RouteField(routeData, "requiresSecureAccess") : rs)
            /\ ~hasSecureAccess(authState, t)
    THEN Denied("StepUpRequired", <<"Secure access required but not available">>, <<>>)
    ELSE Allowed

\* private validateAuthState(authState, routeData, url)
validateAuthState(authState, routeData, t) ==
    IF ~authState.isAuthenticated \/ authState.user = {}
    THEN Denied("NotAuthenticated", <<"User not authenticated">>, <<>>)
    ELSE LET user == CHOOSE u \in authState.user : TRUE IN
    IF ~user.isActive
    THEN Denied("AccountInactive", <<"Inactive user attempted access">>,
                <<"Account Suspended">>)
    ELSE IF isTokenExpired(authState.expiresAt, t)
    THEN Denied("TokenExpired", <<"Token expired">>, <<>>)
    ELSE IF isSessionExpired(authState.lastActivity, t)
    THEN Denied("SessionInactive", <<"Session expired due to inactivity">>,
                <<"Session Expired">>)
    ELSE IF \E rr \in RouteField(routeData, "requiredRoles") : ~hasRequiredRoles(user, rr)
    THEN Denied("InsufficientRole", <<"User lacks required roles">>, <<>>)
    ELSE IF \E rp \in RouteField(routeData, "requiredPermissions") :
                ~hasRequiredPermissions(user, rp)
    THEN Denied("InsufficientPermission", <<"User lacks required permissions">>, <<>>)
    ELSE IF (\E rs \in RouteField(routeData, "requiresSecureAccess") : rs)
            /\ ~hasSecureAccess(authState, t)
    THEN Denied("StepUpRequired", <<"Secure access required but not available">>, <<>>)
    ELSE Allowed

(***************************************************************************)
(* The inputs of the guard: every combination of the values below, which   *)
(* put each timestamp before, at and after the boundary it is compared to. *)
(***************************************************************************)
GuardNow == secureAccessWindow + 1

GuardUsers ==
    [isActive : BOOLEAN, roles : {{"user"}, {"user", "admin"}},
     permissions : {{}, {"write"}}]

GuardAuthStates ==
    [isAuthenticated : BOOLEAN,
     user : {{}} \cup { {u} : u \in GuardUsers },
     token : {{"token"}},
     refreshToken : {{"refresh"}},
     expiresAt : {{}, {GuardNow}, {GuardNow + bufferTime}, {GuardNow + bufferTime + 1}},
     loginTime : {{}, {GuardNow - secureAccessWindow - 1}, {GuardNow - secureAccessWindow},
                  {GuardNow - secureAccessWindow + 1}},
     lastActivity : {{}, {GuardNow - maxInactiveTime - 1}, {GuardNow - maxInactiveTime},
                     {GuardNow}}]

\* route.data: undefined, or an object whose fields are undefined ({}) or given
GuardRoutes ==
    {{}} \cup
    { {r} : r \in [requiredRoles : {{}, {{}}, {{"admin"}}},
                   requiredPermissions : {{}, {{"write"}}},
                   requiresSecureAccess : {{}, {TRUE}, {FALSE}}] }

\* the guard waiting for a navigation
GuardIdle ==
    /\ gAuth = [isAuthenticated |-> FALSE, user |-> {}, token |-> {}, refreshToken |-> {},
                expiresAt |-> {}, loginTime |-> {}, lastActivity |-> {}]
    /\ gRoute = {}
    /\ gResult = {}

(***************************************************************************)
(* AuthService (src/guards/auth.guard.ts).  svc holds the service and the  *)
(* browser state it acts on: authState is authStateSubject.value, stored   *)
(* is localStorage['auth-state'] ({} when the key is absent), timers is    *)
(* the set of the pending refresh timeouts, each with the id setTimeout    *)
(* returned (the number of the step that scheduled it) and its fire time,  *)
(* and the two timer fields are {} when undefined.  localStorage.setItem   *)
(* may throw (quota); getItem and removeItem are taken to succeed.         *)
(***************************************************************************)
MaxAuthOps == 8
MaxCalls == 2

\* 10 minutes before expiry
refreshLead == 2

\* the literal of clearAuthState, which is also the initial value of the subject
clearedState ==
    [isAuthenticated |-> FALSE, user |-> {}, token |-> {}, refreshToken |-> {},
     expiresAt |-> {}, loginTime |-> {}, lastActivity |-> {}]

\* JSON.stringify(stateToStore): the tokens are kept only when authenticated, a Date
\* becomes its ISO string
stateToStore(authState) ==
    [authState EXCEPT
        !.token = IF authState.isAuthenticated THEN authState.token ELSE {},
        !.refreshToken = IF authState.isAuthenticated THEN authState.refreshToken ELSE {},
        !.expiresAt = { toISOString(e) : e \in @ },
        !.loginTime = { toISOString(e) : e \in @ },
        !.lastActivity = { toISOString(e) : e \in @ }]

\* private storeAuthState(authState); a throwing setItem is caught and logged
storeAuthState(s, authState, setItemOk) ==
    IF setItemOk THEN [s EXCEPT !.stored = {stateToStore(authState)}] ELSE s

\* private clearStoredAuth()
clearStoredAuth(s) == [s EXCEPT !.stored = {}]

\* a plausible slip: the state is stored before it is published, and a throwing setItem
\* is not caught
updateAuthState_storeFirst(s, authState, setItemOk) ==
    IF setItemOk THEN storeAuthState([s EXCEPT !.authState = authState], authState, TRUE)
    ELSE s

\* private updateAuthState(authState)
updateAuthState(s, authState, setItemOk) ==
    storeAuthState([s EXCEPT !.authState = authState], authState, setItemOk)

\* clearAuthState()
clearAuthState(s, setItemOk) == clearStoredAuth(updateAuthState(s, clearedState, setItemOk))

\* private clearRefreshTimer(): clearTimeout of an id that has fired changes nothing
clearRefreshTimer(s) ==
    IF s.refreshTokenTimer # {}
    THEN [s EXCEPT !.timers = { tm \in @ : tm.id \notin s.refreshTokenTimer },
                   !.refreshTokenTimer = {}]
    ELSE s

\* private clearActivityTimer()
clearActivityTimer(s) ==
    IF s.activityCheckTimer # {} THEN [s EXCEPT !.activityCheckTimer = {}] ELSE s

\* private clearTimers()
clearTimers(s) == clearActivityTimer(clearRefreshTimer(s))

\* a plausible slip: the timer scheduled before is not cancelled
scheduleTokenRefresh_noClear(s, expiresAt, t, id) ==
    IF expiresAt = {} THEN s
    ELSE LET e == CHOOSE x \in expiresAt : TRUE
             refreshTime == e - t - refreshLead
         IN IF refreshTime > 0
            THEN [s EXCEPT !.timers = @ \cup {[id |-> id, at |-> t + refreshTime]},
                           !.refreshTokenTimer = {id}]
            ELSE s

\* private scheduleTokenRefresh(expiresAt); id is what window.setTimeout returns
scheduleTokenRefresh(s, expiresAt, t, id) ==
    LET c == clearRefreshTimer(s) IN
    IF expiresAt = {} THEN c
    ELSE LET e == CHOOSE x \in expiresAt : TRUE
             refreshTime == e - t - refreshLead
         IN IF refreshTime > 0
            THEN [c EXCEPT !.timers = @ \cup {[id |-> id, at |-> t + refreshTime]},
                           !.refreshTokenTimer = {id}]
            ELSE c

\* private setupActivityMonitoring(): the interval is started
setupActivityMonitoring(s) == [s EXCEPT !.activityCheckTimer = {"interval"}]

\* JSON.parse(storedAuth) with the three dates rebuilt
parsedAuth(json) ==
    [json EXCEPT
        !.expiresAt = { newDate(e) : e \in @ },
        !.loginTime = { newDate(e) : e \in @ },
        !.lastActivity = { newDate(e) : e \in @ }]

\* a plausible slip: the expiry of the snapshot is not compared with the clock
isValidStoredAuth_noExpiry(authState, t) ==
    /\ authState.isAuthenticated
    /\ authState.user # {}
    /\ authState.token # {}
    /\ authState.expiresAt # {}

\* private isValidStoredAuth(authState)
isValidStoredAuth(authState, t) ==
    /\ authState.isAuthenticated
    /\ authState.user # {}
    /\ authState.token # {}
    /\ authState.expiresAt # {}
    /\ \E e \in authState.expiresAt : e > t

\* private initializeAuthState()
initializeAuthState(s, t, id, setItemOk) ==
    IF s.stored = {} THEN s
    ELSE LET storedAuth == CHOOSE j \in s.stored : TRUE IN
         IF "unreadable" \in DOMAIN storedAuth
         THEN clearAuthState(s, setItemOk)
         ELSE LET authState == parsedAuth(storedAuth) IN
              IF isValidStoredAuth(authState, t)
              THEN scheduleTokenRefresh([s EXCEPT !.authState = authState],
                                        authState.expiresAt, t, id)
              ELSE clearAuthState(s, setItemOk)

\* the fields as declared, on what localStorage holds
declared(stored) ==
    [authState |-> clearedState, stored |-> stored, timers |-> {},
     refreshTokenTimer |-> {}, activityCheckTimer |-> {}]

\* the constructor
constructor(stored, t, id, setItemOk) ==
    setupActivityMonitoring(initializeAuthState(declared(stored), t, id, setItemOk))

\* a plausible slip: the token of the response is left out of the new state
loginAuthState_noToken(response, t) ==
    [isAuthenticated |-> TRUE, user |-> {response.user}, token |-> {},
     refreshToken |-> {response.refreshToken}, expiresAt |-> {newDate(response.expiresAt)},
     loginTime |-> {t}, lastActivity |-> {t}]

\* a plausible slip: the expiry of the response is left out of the new state
loginAuthState_noExpiry(response, t) ==
    [isAuthenticated |-> TRUE, user |-> {response.user}, token |-> {response.token},
     refreshToken |-> {response.refreshToken}, expiresAt |-> {},
     loginTime |-> {t}, lastActivity |-> {t}]

\* login(): the AuthState built from a successful response
loginAuthState(response, t) ==
    [isAuthenticated |-> TRUE, user |-> {response.user}, token |-> {response.token},
     refreshToken |-> {response.refreshToken}, expiresAt |-> {newDate(response.expiresAt)},
     loginTime |-> {t}, lastActivity |-> {t}]

\* login() after a successful response
loginSucceeded(s, response, t, id, setItemOk) ==
    LET authState == loginAuthState(response, t) IN
    scheduleTokenRefresh(updateAuthState(s, authState, setItemOk), authState.expiresAt, t, id)

\* a plausible slip: the catch block of login() clears the state as refreshToken()'s does
loginFailed_clears(s) == clearAuthState(s, TRUE)

\* login(): the catch block logs and throws
loginFailed(s) == s

\* a plausible slip: the finally block of logout() leaves the stored snapshot to setItem
logoutFinally_keepsStored(s, setItemOk) ==
    clearTimers(updateAuthState(s, clearedState, setItemOk))

\* logout(): the finally block
logoutFinally(s, setItemOk) == clearTimers(clearAuthState(s, setItemOk))

\* a call suspended on its HTTP request, with the currentState it read before
Suspended(kind, currentState, origin) ==
    [kind |-> kind, currentState |-> currentState, origin |-> origin]

\* logout(reason) up to its first await: without a token the finally block runs at once
logout(s, cs, reason, setItemOk) ==
    IF s.authState.token # {}
    THEN [svc |-> s, calls |-> cs \cup {Suspended("logout", s.authState, reason)},
          loggedOut |-> FALSE]
    ELSE [svc |-> logoutFinally(s, setItemOk), calls |-> cs, loggedOut |-> TRUE]

\* a plausible slip: the new state is built as login() builds it, its loginTime set anew
refreshSucceeded_newLoginTime(s, currentState, response, t, id, setItemOk) ==
    LET newAuthState == [currentState EXCEPT !.token = {response.token},
                                             !.expiresAt = {newDate(response.expiresAt)},
                                             !.loginTime = {t},
                                             !.lastActivity = {t}]
    IN scheduleTokenRefresh(updateAuthState(s, newAuthState, setItemOk),
                            newAuthState.expiresAt, t, id)

\* refreshToken() after a successful response
refreshSucceeded(s, currentState, response, t, id, setItemOk) ==
    LET newAuthState == [currentState EXCEPT !.token = {response.token},
                                             !.expiresAt = {newDate(response.expiresAt)},
                                             !.lastActivity = {t}]
    IN scheduleTokenRefresh(updateAuthState(s, newAuthState, setItemOk),
                            newAuthState.expiresAt, t, id)

\* a plausible slip: the catch block of refreshToken() only logs and throws
refreshFailed_keeps(s, setItemOk) == s

\* refreshToken(): the catch block
refreshFailed(s, setItemOk) == clearAuthState(s, setItemOk)

\* a plausible slip: the state is not tested for being authenticated
updateLastActivity_noGuard(s, t) ==
    [s EXCEPT !.authState = [s.authState EXCEPT !.lastActivity = {t}]]

\* updateLastActivity()
updateLastActivity(s, t) ==
    IF s.authState.isAuthenticated
    THEN [s EXCEPT !.authState = [s.authState EXCEPT !.lastActivity = {t}]]
    ELSE s

(***************************************************************************)
(* What the server answers.                                                *)
(***************************************************************************)
Tokens == {"tokA", "tokB"}
TokenLifetimes == {refreshLead, refreshLead + 1}
responseUser == [isActive |-> TRUE, roles |-> {"user"}, permissions |-> {}]

\* a token the service does not hold
IssuedTokens(s) == IF s.authState.token = {} THEN {"tokA"} ELSE Tokens \ s.authState.token

\* { success: true, ... }
Responses(s, t) ==
    { [success |-> TRUE, user |-> responseUser, token |-> tk, refreshToken |-> "refresh",
       expiresAt |-> toISOString(t + d)] : tk \in IssuedTokens(s), d \in TokenLifetimes }

\* the request throws, the response is undefined, or its success is false
Failures == {"error", "undefined", "unsuccessful"}

(***************************************************************************)
(* The steps of the AuthService.                                           *)
(***************************************************************************)
Did(op, ret, loggedOut) == [op |-> op, ret |-> ret, loggedOut |-> loggedOut]

\* one more step is taken beside the cache
AuthBudget ==
    /\ ops < MaxAuthOps
    /\ ops' = ops + 1
    /\ UNCHANGED <<cache, storage, watch, last, pending, sideVars>>

\* one more step of the AuthService is taken; a navigation the guard decided is over
AuthStep == AuthBudget /\ gAuth' = clearedState /\ gRoute' = {} /\ gResult' = {}

\* login(loginRequest) up to its await
AuthLogin ==
    /\ AuthStep
    /\ Cardinality(calls) < MaxCalls
    /\ calls' = calls \cup {Suspended("login", clearedState, "user")}
    /\ aLast' = Did("loginStarted", "pending", FALSE)
    /\ UNCHANGED <<now, svc>>

\* login() resumes with a successful response
AuthLoginSucceeds(c, response, setItemOk) ==
    /\ AuthStep
    /\ c.kind = "login"
    /\ svc' = loginSucceeded(svc, response, now, ops, setItemOk)
    /\ calls' = calls \ {c}
    /\ aLast' = Did("loginSucceeded", "authState", FALSE)
    /\ UNCHANGED now

\* login() resumes with a failure
AuthLoginFails(c, failure) ==
    /\ AuthStep
    /\ c.kind = "login"
    /\ svc' = loginFailed(svc)
    /\ calls' = calls \ {c}
    /\ aLast' = Did("loginFailed", "Login failed. Please check your credentials.", FALSE)
    /\ UNCHANGED now

\* logout(reason) up to its await, or to its end when there is no token
AuthLogout(reason, setItemOk) ==
    /\ AuthStep
    /\ Cardinality(calls) < MaxCalls
    /\ LET r == logout(svc, calls, reason, setItemOk) IN
        /\ svc' = r.svc
        /\ calls' = r.calls
        /\ aLast' = Did("logoutStarted", IF r.loggedOut THEN "void" ELSE "pending",
                        r.loggedOut)
    /\ UNCHANGED now

\* logout() resumes: whether the request succeeded or threw, the finally block runs
AuthLogoutCompletes(c, setItemOk) ==
    /\ AuthStep
    /\ c.kind = "logout"
    /\ svc' = logoutFinally(svc, setItemOk)
    /\ calls' = calls \ {c}
    /\ aLast' = Did("logoutCompleted", "void", TRUE)
    /\ UNCHANGED now

\* refreshToken() up to its await; without a refresh token it throws into its catch
\* block, and the timer's callback then calls logout('session_timeout')
RefreshBegins(s, cs, origin, setItemOk) ==
    IF s.authState.refreshToken # {}
    THEN [svc |-> s, calls |-> cs \cup {Suspended("refresh", s.authState, origin)},
          loggedOut |-> FALSE, op |-> "refreshStarted", ret |-> "pending"]
    ELSE LET f == refreshFailed(s, setItemOk)
             r == IF origin = "timer" THEN logout(f, cs, "session_timeout", setItemOk)
                  ELSE [svc |-> f, calls |-> cs, loggedOut |-> FALSE]
         IN [svc |-> r.svc, calls |-> r.calls, loggedOut |-> r.loggedOut,
             op |-> IF origin = "timer" THEN "scheduledRefreshFailed" ELSE "refreshFailed",
             ret |-> "No refresh token available"]

\* refreshToken() called by the application
AuthRefresh(setItemOk) ==
    /\ AuthStep
    /\ Cardinality(calls) < MaxCalls
    /\ LET r == RefreshBegins(svc, calls, "user", setItemOk) IN
        /\ svc' = r.svc
        /\ calls' = r.calls
        /\ aLast' = Did(r.op, r.ret, r.loggedOut)
    /\ UNCHANGED now

\* the refresh timeout fires and calls refreshToken()
AuthRefreshTimer(tm, setItemOk) ==
    /\ AuthStep
    /\ Cardinality(calls) < MaxCalls
    /\ tm \in svc.timers
    /\ tm.at <= now
    /\ LET r == RefreshBegins([svc EXCEPT !.timers = @ \ {tm}], calls, "timer", setItemOk) IN
        /\ svc' = r.svc
        /\ calls' = r.calls
        /\ aLast' = Did(r.op, r.ret, r.loggedOut)
    /\ UNCHANGED now

\* refreshToken() resumes with a successful response
AuthRefreshSucceeds(c, response, setItemOk) ==
    /\ AuthStep
    /\ c.kind = "refresh"
    /\ svc' = refreshSucceeded(svc, c.currentState, response, now, ops, setItemOk)
    /\ calls' = calls \ {c}
    /\ aLast' = Did("refreshSucceeded", "authState", FALSE)
    /\ UNCHANGED now

\* refreshToken() resumes with a failure; the timer's callback then calls
\* logout('session_timeout')
AuthRefreshFails(c, failure, setItemOk) ==
    /\ AuthStep
    /\ c.kind = "refresh"
    /\ LET f == refreshFailed(svc, setItemOk)
           r == IF c.origin = "timer"
                THEN logout(f, calls \ {c}, "session_timeout", setItemOk)
                ELSE [svc |-> f, calls |-> calls \ {c}, loggedOut |-> FALSE]
       IN /\ svc' = r.svc
          /\ calls' = r.calls
          /\ aLast' = Did(IF c.origin = "timer" THEN "scheduledRefreshFailed"
                          ELSE "refreshFailed",
                          "Token refresh failed", r.loggedOut)
    /\ UNCHANGED now

\* updateLastActivity()
AuthActivity ==
    /\ AuthStep
    /\ svc' = updateLastActivity(svc, now)
    /\ aLast' = Did("activity", "void", FALSE)
    /\ UNCHANGED <<now, calls>>

\* the callback of the activity interval
AuthActivityCheck(setItemOk) ==
    /\ AuthStep
    /\ svc.activityCheckTimer # {}
    /\ Cardinality(calls) < MaxCalls
    /\ LET currentState == svc.authState
           r == IF /\ currentState.isAuthenticated
                   /\ \E a \in currentState.lastActivity : (now - a) > maxInactiveTime
                THEN logout(svc, calls, "session_timeout", setItemOk)
                ELSE [svc |-> svc, calls |-> calls, loggedOut |-> FALSE]
       IN /\ svc' = r.svc
          /\ calls' = r.calls
          /\ aLast' = Did("activityCheck", "void", r.loggedOut)
    /\ UNCHANGED now

\* the page is loaded again: the suspended calls and the timers are gone, the service
\* is constructed on what localStorage holds
AuthConstructor(setItemOk) ==
    /\ AuthStep
    /\ svc' = constructor(svc.stored, now, ops, setItemOk)
    /\ calls' = {}
    /\ aLast' = Did("constructed", "void", FALSE)
    /\ UNCHANGED now

\* the route data of the navigations: undefined, without requirements, asking for a role
AuthRoutes ==
    { {},
      {[requiredRoles |-> {}, requiredPermissions |-> {}, requiresSecureAccess |-> {}]},
      {[requiredRoles |-> {{"admin"}}, requiredPermissions |-> {},
        requiresSecureAccess |-> {}]} }

\* a navigation: the guard decides on the state the service holds
AuthValidate(routeData) ==
    /\ AuthBudget
    /\ gAuth' = svc.authState
    /\ gRoute' = routeData
    /\ gResult' = {validateAuthState(svc.authState, routeData, now)}
    /\ aLast' = Did("validateAuthState",
                    IF validateAuthState(svc.authState, routeData, now).valid
                    THEN "true" ELSE "false", FALSE)
    /\ UNCHANGED <<now, svc, calls>>

\* the clock advances, by one unit or past the inactivity limit
Elapses == {1, maxInactiveTime + 1}

AuthTick(d) ==
    /\ AuthStep
    /\ now' = now + d
    /\ aLast' = Did("tick", "void", FALSE)
    /\ UNCHANGED <<svc, calls>>

\* the service as constructed on an empty localStorage
AuthIdle ==
    /\ svc = constructor({}, 0, 0, TRUE)
    /\ calls = {}
    /\ aLast = Did("constructed", "void", FALSE)

AuthNext ==
    \/ AuthLogin
    \/ \E c \in calls, setItemOk \in BOOLEAN :
            \E response \in Responses(svc, now) : AuthLoginSucceeds(c, response, setItemOk)
    \/ \E c \in calls, failure \in Failures : AuthLoginFails(c, failure)
    \/ \E setItemOk \in BOOLEAN : AuthLogout("user_logout", setItemOk)
    \/ \E c \in calls, setItemOk \in BOOLEAN : AuthLogoutCompletes(c, setItemOk)
    \/ \E setItemOk \in BOOLEAN : AuthRefresh(setItemOk)
    \/ \E tm \in svc.timers, setItemOk \in BOOLEAN : AuthRefreshTimer(tm, setItemOk)
    \/ \E c \in calls, setItemOk \in BOOLEAN :
            \E response \in Responses(svc, now) : AuthRefreshSucceeds(c, response, setItemOk)
    \/ \E c \in calls, failure \in Failures, setItemOk \in BOOLEAN :
            AuthRefreshFails(c, failure, setItemOk)
    \/ AuthActivity
    \/ \E setItemOk \in BOOLEAN : AuthActivityCheck(setItemOk)
    \/ \E setItemOk \in BOOLEAN : AuthConstructor(setItemOk)
    \/ \E routeData \in AuthRoutes : AuthValidate(routeData)
    \/ \E d \in Elapses : AuthTick(d)

(***************************************************************************)
(* AuthGuard.checkAuthentication: the Observable canActivate() returns,    *)
(* and its subscriber.  getCurrentAuthState() is the BehaviorSubject of    *)
(* the service: it registers a subscriber and then hands it its value, and *)
(* every next() is delivered to the registered subscribers inside the call *)
(* of next().  tap runs its callback before it passes the value on, so     *)
(* what updateLastActivity() emits from the callback is mapped and tapped  *)
(* again before the callback returns.                                      *)
(***************************************************************************)
\* the nested emissions the call stack holds before the engine throws a RangeError
\* (thousands in a browser, scaled down)
MaxStack == 3

\* a plausible slip: the callback of tap records activity whatever the decision
tapEffect_always(s, isValid, t) == updateLastActivity(s, t)

\* tap(isValid => ...): what the callback does to the AuthService; handleAuthFailure()
\* notifies and navigates but does not touch the service
tapEffect(s, isValid, t) == IF isValid THEN updateLastActivity(s, t) ELSE s

\* no navigation is being checked
chkIdle ==
    [phase |-> "idle", route |-> {}, depth |-> 0, first |-> {}, touches |-> 0,
     failures |-> 0, out |-> <<>>]

\* the subscriber is left alone; the cache and the other services do not move
CheckStep ==
    UNCHANGED <<now, cacheVars, guardVars, calls, aLast, pending, notifVars, apiVars>>

\* canActivate(route, state) is subscribed to: the subject registers the subscriber and
\* emits its value
CheckSubscribe(routeData) ==
    /\ CheckStep
    /\ chk.phase = "idle"
    /\ chk' = [chkIdle EXCEPT !.phase = "subscribed", !.route = routeData, !.depth = 1]
    /\ UNCHANGED svc

\* the emission on top of the stack goes through map and tap: a state that is not valid
\* is reported and false is passed on; for a valid one updateLastActivity() emits the
\* updated state, which is delivered before the callback returns
CheckEmission ==
    LET isValid == validateAuthState(svc.authState, chk.route, now).valid IN
    /\ CheckStep
    /\ chk.phase = "subscribed"
    /\ chk.depth < MaxStack \/ ~isValid
    /\ svc' = tapEffect(svc, isValid, now)
    /\ chk' = IF isValid
              THEN [chk EXCEPT !.first = IF @ = {} THEN {isValid} ELSE @,
                               !.touches = @ + 1,
                               !.depth = IF svc.authState.isAuthenticated THEN @ + 1 ELSE 0,
                               !.phase = IF svc.authState.isAuthenticated THEN @ ELSE "done",
                               !.out = IF svc.authState.isAuthenticated THEN @
                                       ELSE [i \in 1 .. chk.depth |-> "true"]]
              ELSE [chk EXCEPT !.first = IF @ = {} THEN {isValid} ELSE @,
                               !.failures = @ + 1,
                               !.depth = 0,
                               !.phase = "done",
                               !.out = <<"false">> \o [i \in 1 .. (chk.depth - 1) |-> "true"]]

\* the stack is exhausted: the nested call throws a RangeError, which reaches catchError
\* (of(false)) or, when its handler cannot run either, the subscriber as an error
CheckStackExhausted(outcome) ==
    LET isValid == validateAuthState(svc.authState, chk.route, now).valid IN
    /\ CheckStep
    /\ chk.phase = "subscribed"
    /\ chk.depth = MaxStack /\ isValid
    /\ chk' = [chk EXCEPT !.depth = 0, !.phase = "done", !.out = <<outcome>>]
    /\ UNCHANGED svc

\* the AuthStates the service may hold when a navigation is checked: none, or a session
\* with its user, token, expiry, login time and last activity
CheckAuthStates ==
    {clearedState} \cup
    [isAuthenticated : {TRUE},
     user : { {u} : u \in GuardUsers },
     token : {{"token"}},
     refreshToken : {{"refresh"}},
     expiresAt : {{GuardNow}, {GuardNow + bufferTime}, {GuardNow + bufferTime + 1}},
     loginTime : {{GuardNow - secureAccessWindow - 1}, {GuardNow - secureAccessWindow},
                  {GuardNow - secureAccessWindow + 1}},
     lastActivity : {{GuardNow - maxInactiveTime - 1}, {GuardNow - maxInactiveTime},
                     {GuardNow}}]

CheckNext ==
    \/ \E routeData \in GuardRoutes : CheckSubscribe(routeData)
    \/ CheckEmission
    \/ \E outcome \in {"false", "error"} : CheckStackExhausted(outcome)

(***************************************************************************)
(* NotificationService (src/services/notification.service - Copy - Copy -  *)
(* Copy.ts).  In its steps the clock counts units of defaultDuration       *)
(* (5000 ms).  A notification is the record of its id, duration and        *)
(* timestamp; the id is the number of the step that added it.              *)
(***************************************************************************)
\* maxNotifications (5 in the source), scaled down
maxNotifications == 3
\* the number of steps of a run of the NotificationService
MaxNotifOps == 6
\* defaultDuration: 5000 ms, one unit
defaultDuration == 1

\* the duration argument: {} when omitted, else {duration}
Durations == {{}, {0}, {2}}

\* the NotificationModel addNotification() builds: request.duration ?? defaultDuration
notification(duration, id, t) ==
    [id |-> id,
     duration |-> IF duration = {} THEN defaultDuration ELSE CHOOSE d \in duration : TRUE,
     timestamp |-> t]

\* private scheduleAutoDismiss(id, duration): timer(duration).pipe(takeUntil(
\* this.notifications$.pipe())).subscribe(...).  takeUntil subscribes to its notifier
\* first and, when the notifier emits during that subscription, completes without
\* subscribing to its source; notifications$ is a BehaviorSubject, which emits its value
\* to every new subscriber
scheduleAutoDismiss(timers, id, duration, t) ==
    LET notifierEmitsOnSubscribe == TRUE IN
    IF notifierEmitsOnSubscribe THEN timers
    ELSE timers \cup {[id |-> id, at |-> t + duration]}

\* notifications$.next(value): the timers taken until notifications$ emits are completed
nextNotifications(value) == [notifications |-> value, autoDismiss |-> {}]

\* addNotification(request)
addNotification(ns, duration, id, t) ==
    LET n == notification(duration, id, t)
        all == <<n>> \o ns
        updatedNotifications ==
            SubSeq(all, 1, IF Len(all) < maxNotifications THEN Len(all) ELSE maxNotifications)
        emitted == nextNotifications(updatedNotifications)
    IN  [emitted EXCEPT !.autoDismiss =
            IF n.duration > 0 THEN scheduleAutoDismiss(@, n.id, n.duration, t) ELSE @]

\* dismissNotification(id)
dismissNotification(ns, id) ==
    nextNotifications(SelectSeq(ns, LAMBDA n : n.id # id))

\* the timers that are due fire, one after the other
RECURSIVE fireAutoDismiss(_, _, _)
fireAutoDismiss(ns, timers, t) ==
    IF \A tm \in timers : tm.at > t THEN [notifications |-> ns, autoDismiss |-> timers]
    ELSE LET tm == CHOOSE x \in timers : x.at <= t
             r == dismissNotification(ns, tm.id)
         IN  fireAutoDismiss(r.notifications, r.autoDismiss, t)

NotifDid(op, id) == [op |-> op, id |-> id]

\* one more step of the NotificationService is taken
NotifStep ==
    /\ ops < MaxNotifOps
    /\ ops' = ops + 1
    /\ UNCHANGED <<cache, storage, watch, last, pending, guardVars, authVars, chk, apiVars>>

\* showSuccess/showWarning/showInfo/addNotification with a duration, or without one
NotifAdd(duration) ==
    LET r == addNotification(notifications, duration, ops + 1, now) IN
    /\ NotifStep
    /\ notifications' = r.notifications
    /\ autoDismiss' = r.autoDismiss
    /\ nLast' = NotifDid("add", ops + 1)
    /\ UNCHANGED now

\* dismissNotification(id) called by the user
NotifDismiss(id) ==
    LET r == dismissNotification(notifications, id) IN
    /\ NotifStep
    /\ notifications' = r.notifications
    /\ autoDismiss' = r.autoDismiss
    /\ nLast' = NotifDid("dismiss", id)
    /\ UNCHANGED now

\* clearAllNotifications()
NotifClearAll ==
    /\ NotifStep
    /\ notifications' = <<>>
    /\ autoDismiss' = {}
    /\ nLast' = NotifDid("clearAll", 0)
    /\ UNCHANGED now

\* the clock advances by one unit, and the timers that are due fire
NotifTick ==
    LET r == fireAutoDismiss(notifications, autoDismiss, now + 1) IN
    /\ NotifStep
    /\ now' = now + 1
    /\ notifications' = r.notifications
    /\ autoDismiss' = r.autoDismiss
    /\ nLast' = NotifDid("tick", 0)

\* the service as constructed
NotifIdle ==
    /\ notifications = <<>>
    /\ autoDismiss = {}
    /\ nLast = NotifDid("constructed", 0)

NotifNext ==
    \/ \E duration \in Durations : NotifAdd(duration)
    \/ \E i \in 1 .. Len(notifications) : NotifDismiss(notifications[i].id)
    \/ NotifClearAll
    \/ NotifTick

(***************************************************************************)
(* ExtendedApiService (src/services/extended-api.service - Copy (6).ts):   *)
(* executeRequest() and the loading flag.  A call is in the set requests   *)
(* from setLoading(true) until its promise settles: "requesting" while its *)
(* HTTP Observable is open, "failed" once that has ended without a         *)
(* successful response and the catch block is still to run.                *)
(***************************************************************************)
\* the number of steps of a run of the ExtendedApiService
MaxApiOps == 6
\* the calls that may be open at once
MaxRequests == 3

\* private setLoading(loading)
setLoading(loading) == loading

ApiDid(op, id) == [op |-> op, id |-> id]

\* one more step of the ExtendedApiService is taken
ApiStep ==
    /\ ops < MaxApiOps
    /\ ops' = ops + 1
    /\ UNCHANGED <<now, cache, storage, watch, last, pending, guardVars, authVars, chk,
                   notifVars>>

\* executeRequest(config) up to its await: a GET found in requestCache returns at once;
\* otherwise setLoading(true), and the request of config.method is sent
ApiExecuteRequest(kind) ==
    /\ ApiStep
    /\ Cardinality(requests) < MaxRequests
    /\ loadingSubject' = IF kind = "cached" THEN loadingSubject ELSE setLoading(TRUE)
    /\ requests' = IF kind = "sent"
                   THEN requests \cup {[id |-> ops + 1, phase |-> "requesting"]}
                   ELSE requests
    /\ xLast' = ApiDid(kind, ops + 1)

\* the HTTP Observable of a call ends, with a response or (after timeout and the retries)
\* with an error: finalize(() => this.setLoading(false)).  A response with success: true
\* lets the call return
ApiRequestEnds(r, outcome) ==
    /\ ApiStep
    /\ r.phase = "requesting"
    /\ loadingSubject' = setLoading(FALSE)
    /\ requests' = IF outcome = "success" THEN requests \ {r}
                   ELSE (requests \ {r}) \cup {[r EXCEPT !.phase = "failed"]}
    /\ xLast' = ApiDid(outcome, r.id)

\* the call resumes in its catch block: setLoading(false), and the error is thrown
ApiCatch(r) ==
    /\ ApiStep
    /\ r.phase = "failed"
    /\ loadingSubject' = setLoading(FALSE)
    /\ requests' = requests \ {r}
    /\ xLast' = ApiDid("thrown", r.id)

\* the service as constructed
ApiIdle ==
    /\ loadingSubject = FALSE
    /\ requests = {}
    /\ xLast = ApiDid("constructed", 0)

ApiNext ==
    \/ \E kind \in {"cached", "sent"} : ApiExecuteRequest(kind)
    \/ \E r \in requests, outcome \in {"success", "unsuccessful", "error"} :
            ApiRequestEnds(r, outcome)
    \/ \E r \in requests : ApiCatch(r)

\* nothing is checked, shown or requested
SideIdle == chk = chkIdle /\ NotifIdle /\ ApiIdle

(***************************************************************************)
(* The specifications.                                                     *)
(***************************************************************************)
GuardInit ==
    /\ now = GuardNow
    /\ gAuth \in GuardAuthStates
    /\ gRoute \in GuardRoutes
    /\ gResult = {}
    /\ CacheIdle
    /\ AuthIdle
    /\ SideIdle

\* the guard decides
GuardValidate ==
    /\ gResult = {}
    /\ gResult' = {validateAuthState(gAuth, gRoute, now)}
    /\ UNCHANGED <<now, gAuth, gRoute, cacheVars, authVars, pending, sideVars>>

GuardNext == GuardValidate

SpecGuard == GuardInit /\ [][GuardNext]_vars

CacheInit == now = 0 /\ CacheIdle /\ GuardIdle /\ AuthIdle /\ SideIdle

SpecCache == CacheInit /\ [][CacheNext]_vars

SpecGetOrSet == CacheInit /\ [][GetOrSetNext]_vars

AuthInit == now = 0 /\ CacheIdle /\ GuardIdle /\ AuthIdle /\ SideIdle

SpecAuth == AuthInit /\ [][AuthNext]_vars

\* a navigation is checked on what the service holds
CheckInit ==
    /\ now = GuardNow
    /\ CacheIdle
    /\ GuardIdle
    /\ SideIdle
    /\ \E a \in CheckAuthStates : svc = [constructor({}, 0, 0, TRUE) EXCEPT !.authState = a]
    /\ calls = {}
    /\ aLast = Did("constructed", "void", FALSE)

SpecCheck == CheckInit /\ [][CheckNext]_vars

NotifInit == now = 0 /\ CacheIdle /\ GuardIdle /\ AuthIdle /\ SideIdle

SpecNotif == NotifInit /\ [][NotifNext]_vars

ApiInit == now = 0 /\ CacheIdle /\ GuardIdle /\ AuthIdle /\ SideIdle

SpecApi == ApiInit /\ [][ApiNext]_vars

(***************************************************************************)
(* The start of the process on what localStorage['auth-state'] may hold:   *)
(* nothing, text that does not parse, or a snapshot with any combination   *)
(* of the fields below, its expiry before, at and after the clock.         *)
(***************************************************************************)
RestoreNow == 2

StoredSnapshots ==
    {[unreadable |-> TRUE]} \cup
    [isAuthenticated : BOOLEAN,
     user : {{}, {responseUser}},
     token : {{}, {"tokA"}},
     refreshToken : {{"refresh"}},
     expiresAt : {{}} \cup { {toISOString(e)} : e \in {RestoreNow - 1, RestoreNow, RestoreNow + 1,
                                                      RestoreNow + refreshLead + 1} },
     loginTime : {{toISOString(0)}},
     lastActivity : {{}, {toISOString(1)}}]

RestoreInit ==
    /\ now = RestoreNow
    /\ CacheIdle
    /\ GuardIdle
    /\ SideIdle
    /\ \E stored \in {{}} \cup { {j} : j \in StoredSnapshots } : svc = declared(stored)
    /\ calls = {}
    /\ aLast = Did("declared", "void", FALSE)

RestoreNext ==
    \/ \E setItemOk \in BOOLEAN : AuthConstructor(setItemOk)
    \/ \E d \in Elapses : AuthTick(d)

SpecRestore == RestoreInit /\ [][RestoreNext]_vars

(***************************************************************************)
(* CacheService: the properties.                                           *)
(***************************************************************************)
\* C1: after every mutating operation (set, get, has, delete, clear, cleanup, the load
\* from storage at construction) the number of stored entries is at most maxSize
SizeWithinMaxSize == Len(cache) <= maxSize

\* a set() of a new key into a full store has just evicted an entry
SizeWithinMaxSize_witness ==
    last.op = "set" /\ last.evicted # {} /\ Len(cache) = maxSize

\* C2: an entry with now >= expiresAt (now = expiresAt included) is absent: get(key)
\* returns a value only while now < expiresAt, and what size() leaves and counts are
\* only entries with now < expiresAt
ExpiredEntryIsAbsent ==
    /\ (last.op = "get" /\ last.ret # "null")
            => \A it \in SelectKey(cache, last.key) : now < it.expiresAt
    /\ last.op = "size"
            => (last.n = Len(cache) /\ \A it \in MapItems(cache) : now < it.expiresAt)

\* C3 as stated, for every ttl: a get(k) after set(k, v, ttl), with the clock unchanged
\* or at a time before t0 + ttl, returns v (k not overwritten, deleted, cleared, evicted)
SetThenGetReturnsValue_anyTtl ==
    \A w \in watch :
        (/\ last.op = "get" /\ last.key = w.key
         /\ (now = w.at \/ (w.at <= now /\ now < w.at + w.ttl)))
            => last.ret = w.data

\* C3 amended: for ttl > 0, a get(k) at a time t0 <= t < t0 + ttl after set(k, v, ttl)
\* at t0 returns v, provided k was not overwritten, deleted, cleared or evicted between
SetThenGetReturnsValue ==
    \A w \in watch :
        (/\ last.op = "get" /\ last.key = w.key
         /\ w.ttl > 0 /\ w.at <= now /\ now < w.at + w.ttl)
            => last.ret = w.data

\* a get(k) after the clock advanced, still before t0 + ttl, returned the value set
SetThenGetReturnsValue_witness ==
    \E w \in watch :
        /\ last.op = "get" /\ last.key = w.key /\ last.ret = w.data
        /\ w.ttl > 0 /\ w.at < now /\ now < w.at + w.ttl

\* C4: the entry a set() of a new key evicts from a full store is the one with the
\* smallest lastAccessed, ties broken by the earliest timestamp (createdAt); exactly
\* maxSize entries are left
EvictsLeastRecentlyUsedThenOldest ==
    (last.op = "set" /\ last.evicted # {}) =>
        /\ Cardinality(last.evicted) = 1
        /\ Len(cache) = maxSize
        /\ MapHas(cache, last.key)
        /\ \A e \in last.evicted : \A o \in MapItems(cache) :
               o.key # last.key =>
                  \/ e.lastAccessed < o.lastAccessed
                  \/ (e.lastAccessed = o.lastAccessed /\ e.timestamp <= o.timestamp)

\* C5: an entry set with ttl <= 0 (0 included) is expired at once: every get(k) returns
\* absent and removes the entry
NonPositiveTtlNeverReturned ==
    \A w \in watch :
        (last.op = "get" /\ last.key = w.key /\ w.ttl <= 0)
            => (last.ret = "null" /\ ~MapHas(cache, w.key))

(***************************************************************************)
(* AuthGuard: the properties.  GuardPre(i) is the i-th precondition of an  *)
(* Allow in the order the guard is to check them, GuardReason[i] the       *)
(* denial of its failure.                                                  *)
(***************************************************************************)
GuardReason ==
    <<"NotAuthenticated", "AccountInactive", "TokenExpired", "SessionInactive",
      "InsufficientRole", "InsufficientPermission", "StepUpRequired">>

GuardPre(i) ==
    CASE i = 1 -> gAuth.isAuthenticated /\ gAuth.user # {}
      [] i = 2 -> \A u \in gAuth.user : u.isActive
      [] i = 3 -> \E e \in gAuth.expiresAt : now < e - bufferTime
      [] i = 4 -> \A a \in gAuth.lastActivity : now - a <= maxInactiveTime
      [] i = 5 -> \A rr \in RouteField(gRoute, "requiredRoles") :
                     \A u \in gAuth.user : rr \subseteq u.roles
      [] i = 6 -> \A rp \in RouteField(gRoute, "requiredPermissions") :
                     \A u \in gAuth.user : rp \subseteq u.permissions
      [] i = 7 -> (\E rs \in RouteField(gRoute, "requiresSecureAccess") : rs)
                     => \E l \in gAuth.loginTime : now - l <= secureAccessWindow

Earliest(S) == CHOOSE i \in S : \A j \in S : i <= j

\* the log entries and the notification titles that belong to a denial
GuardLogs(reason) ==
    CASE reason = "NotAuthenticated" -> <<"User not authenticated">>
      [] reason = "AccountInactive" -> <<"Inactive user attempted access">>
      [] reason = "TokenExpired" -> <<"Token expired">>
      [] reason = "SessionInactive" -> <<"Session expired due to inactivity">>
      [] reason = "InsufficientRole" -> <<"User lacks required roles">>
      [] reason = "InsufficientPermission" -> <<"User lacks required permissions">>
      [] reason = "StepUpRequired" -> <<"Secure access required but not available">>
      [] OTHER -> <<>>

GuardNotifications(reason) ==
    CASE reason = "AccountInactive" -> <<"Account Suspended">>
      [] reason = "SessionInactive" -> <<"Session Expired">>
      [] OTHER -> <<>>

\* C6: the decision is Allow if and only if all seven preconditions hold (authenticated
\* with a principal, active, now < expiresAt - 5 min, lastActivity absent or at most 30
\* min ago, roles held, permissions held, login at most 1 hour ago when recent
\* authentication is required), and when exactly one of them fails the denial is that
\* check's
GuardAllowsIffAllPreconditions ==
    \A r \in gResult :
        LET failing == { i \in 1 .. 7 : ~GuardPre(i) } IN
        /\ r.valid <=> failing = {}
        /\ \A i \in 1 .. 7 : failing = {i} => r.reason = GuardReason[i]

StepUpWithinOneHourInclusive ==
    \A r \in gResult :
        ((\E rs \in RouteField(gRoute, "requiresSecureAccess") : rs)
         /\ \A i \in 1 .. 6 : GuardPre(i))
        => (r.valid <=> \E l \in gAuth.loginTime : now - l <= secureAccessWindow)

\* C22: a set() removes an entry other than by overwriting only when its key is new and
\* the store holds maxSize entries, and then it removes exactly one; a set() of a key that
\* is present removes nothing; get() and has() remove nothing but the key they were asked
\* for, and only when it has expired; cleanup() and size() remove only expired entries;
\* delete() removes nothing but its key
EvictionOnlyInOverflowingSet ==
    [][LET gone == { it \in MapItems(cache) : it.key \notin MapKeys(cache') } IN
       /\ last'.op = "set" =>
              /\ last'.evicted = gone
              /\ last'.key \in MapKeys(cache')
              /\ IF ~MapHas(cache, last'.key) /\ Len(cache) + 1 > maxSize
                 THEN Cardinality(gone) = 1
                 ELSE gone = {}
       /\ last'.op \in {"get", "has"} =>
              \A it \in gone : it.key = last'.key /\ isExpired(it, now)
       /\ last'.op \in {"cleanup", "size"} => \A it \in gone : isExpired(it, now)
       /\ last'.op = "delete" => \A it \in gone : it.key = last'.key
       /\ last'.op = "tick" => gone = {}]_vars

\* a set() of a new key into a full store has removed one entry that had not expired,
\* and the store is full again
EvictionOnlyInOverflowingSet_witness ==
    /\ last.op = "set"
    /\ Cardinality(last.evicted) = 1
    /\ \A it \in last.evicted : ~isExpired(it, now) /\ it.key # last.key
    /\ Len(cache) = maxSize
    /\ MapHas(cache, last.key)

\* C23: for a key that stays in the store, a get() that returns its value raises its
\* accessCount by one and sets its lastAccessed to now, and no operation of the service
\* (set() on the key included) lowers its accessCount; has(), size(), a get() of another
\* key and the passing of time leave it as it is
AccessCountNeverDecreases ==
    [][\A it \in MapItems(cache), it2 \in MapItems(cache') :
           (it.key = it2.key /\ last'.op # "load") =>
               /\ it2.accessCount >= it.accessCount
               /\ (last'.op = "get" /\ last'.key = it.key) =>
                      /\ it2.accessCount = it.accessCount + 1
                      /\ it2.lastAccessed = now
               /\ (last'.op \in {"has", "size", "tick", "cleanup"}
                   \/ (last'.op = "get" /\ last'.key # it.key)) =>
                      it2.accessCount = it.accessCount]_vars

AuthenticatedHasUserTokenExpiry ==
    svc.authState.isAuthenticated =>
        /\ svc.authState.user # {}
        /\ svc.authState.token # {}
        /\ svc.authState.expiresAt # {}

\* a session restored at startup, and one put back by a refresh that resumed after a
\* logout, are authenticated with all three present
AuthenticatedHasUserTokenExpiry_witness ==
    /\ aLast.op \in {"constructed", "refreshSucceeded"}
    /\ svc.authState.isAuthenticated
    /\ svc.authState.user # {}
    /\ svc.authState.token # {}
    /\ svc.authState.expiresAt # {}

\* C10: a login() that fails ends with the error 'Login failed. Please check your
\* credentials.', and neither its call nor its failure changes the session state, the
\* stored snapshot, the pending refresh timer or the timer fields
FailedLoginChangesNothing ==
    [][/\ aLast'.op \in {"loginStarted", "loginFailed"} => svc' = svc
       /\ aLast'.op = "loginFailed" =>
              aLast'.ret = "Login failed. Please check your credentials."]_vars

\* a login has failed while a session was authenticated, stored, and its refresh
\* timer pending
FailedLoginChangesNothing_witness ==
    /\ aLast.op = "loginFailed"
    /\ svc.authState.isAuthenticated
    /\ svc.stored # {}
    /\ svc.timers # {}

\* C11: once logout() is invoked the local state is cleared without waiting for the
\* remote call: right after the invocation, whatever the request does, the session state
\* is the unauthenticated one, nothing authenticated is stored and no refresh timer is
\* pending
LogoutClearsWithoutWaiting ==
    aLast.op = "logoutStarted" =>
        /\ svc.authState = clearedState
        /\ \A j \in svc.stored : ~j.isAuthenticated
        /\ svc.timers = {}

\* C12: in every reachable state of the service at most one refresh timeout is pending
AtMostOneRefreshTimer == Cardinality(svc.timers) <= 1

\* a refresh called right after a login has succeeded and scheduled its timer, the
\* second scheduling of the run
AtMostOneRefreshTimer_witness ==
    /\ aLast.op = "refreshSucceeded"
    /\ ops = 4
    /\ \E tm \in svc.timers : tm.id = 3 /\ svc.refreshTokenTimer = {3}

\* C13: when the refresh the timer started fails (no refresh token, an error of the
\* request, a rejected exchange), logout('session_timeout') has run: the session state is
\* the unauthenticated one, nothing authenticated is stored and no refresh timer is
\* pending; and after any failed refresh the state is not authenticated
ScheduledRefreshFailureLogsOut ==
    /\ aLast.op = "scheduledRefreshFailed" =>
           /\ aLast.loggedOut
           /\ svc.authState = clearedState
           /\ \A j \in svc.stored : ~j.isAuthenticated
           /\ svc.timers = {}
           /\ svc.refreshTokenTimer = {}
    /\ aLast.op = "refreshFailed" => ~svc.authState.isAuthenticated

\* the request of a refresh started by the timer has failed
ScheduledRefreshFailureLogsOut_witness ==
    /\ aLast.op = "scheduledRefreshFailed"
    /\ aLast.ret = "Token refresh failed"
    /\ aLast.loggedOut
    /\ svc.authState = clearedState

\* C14: the inactivity check runs for the whole lifetime of the process: whenever the
\* state is authenticated, also in a session logged in after an earlier logout, the
\* one-minute interval that logs an idle session out is running
InactivityCheckAlwaysRuns ==
    svc.authState.isAuthenticated => svc.activityCheckTimer # {}

RefreshTimerFollowsExpiry ==
    (\/ aLast.op \in {"loginSucceeded", "refreshSucceeded"}
     \/ aLast.op = "constructed" /\ svc.authState.isAuthenticated)
    => \A e \in svc.authState.expiresAt :
           \E tm \in svc.timers : tm.at = e - refreshLead

\* the snapshot is authenticated, carries a user and a token, and expires after t
StoredValid(j, t) ==
    /\ "unreadable" \notin DOMAIN j
    /\ j.isAuthenticated
    /\ j.user # {}
    /\ j.token # {}
    /\ \E e \in j.expiresAt : newDate(e) > t

InMemory(s) == [s EXCEPT !.stored = {}]

ActivityChangesOnlyLastActivity ==
    [][aLast'.op = "activity" =>
          IF svc.authState.isAuthenticated
          THEN /\ svc'.authState = [svc.authState EXCEPT !.lastActivity = {now}]
               /\ svc'.stored = svc.stored
               /\ svc'.timers = svc.timers
               /\ svc'.refreshTokenTimer = svc.refreshTokenTimer
               /\ svc'.activityCheckTimer = svc.activityCheckTimer
          ELSE svc' = svc]_vars

\* activity has been recorded in a session that was idle since its login, its refresh
\* timer still pending
ActivityChangesOnlyLastActivity_witness ==
    /\ aLast.op = "activity"
    /\ svc.authState.isAuthenticated
    /\ svc.authState.lastActivity = {now}
    /\ \E l \in svc.authState.loginTime : l < now
    /\ svc.timers # {}

(***************************************************************************)
(* CacheService.getOrSet: the property.                                    *)
(***************************************************************************)
\* C16: getOrSet() does not de-duplicate: a call that finds no valid entry calls its
\* factory whether or not another caller's factory is pending for the key, a call that
\* finds a valid entry returns it and calls no factory, and each value a factory emits
\* is stored under the key, so that the cache holds the value written last
GetOrSetDoesNotDeduplicate ==
    [][/\ (last'.op = "getOrSet" /\ last'.ret = "factory") =>
              /\ \A it \in SelectKey(cache, last'.key) : isExpired(it, now)
              /\ pending \subseteq pending'
              /\ Cardinality(pending') = Cardinality(pending) + 1
              /\ \E p \in pending' \ pending : p.caller = last'.n /\ p.key = last'.key
       /\ (last'.op = "getOrSet" /\ last'.ret # "factory") =>
              /\ \E it \in SelectKey(cache, last'.key) :
                     ~isExpired(it, now) /\ it.data = last'.ret
              /\ pending' = pending
       /\ last'.op = "factoryEmitted" =>
              /\ \E it \in SelectKey(cache', last'.key) : it.data = Supplied(last'.n)
              /\ Cardinality({ i \in 1 .. Len(cache') : cache'[i].key = last'.key }) = 1]_vars

\* the factories of both callers are pending for the same key
GetOrSetDoesNotDeduplicate_witness ==
    /\ last.op = "getOrSet"
    /\ \E p, q \in pending : p.caller # q.caller /\ p.key = q.key

\* C25: a refreshToken() that succeeds replaces the token, expiresAt and lastActivity of
\* the state it read by the new values and keeps its isAuthenticated, user, refreshToken
\* and loginTime; a refreshToken() on a state without refresh token fails and sends no
\* request, and one that sends a request read a refresh token
RefreshReplacesOnlyTokenExpiryActivity ==
    [][/\ aLast'.op = "refreshSucceeded" =>
              \E c \in calls \ calls' :
                  /\ c.kind = "refresh"
                  /\ \E tk \in Tokens, d \in TokenLifetimes :
                         svc'.authState = [c.currentState EXCEPT !.token = {tk},
                                                                 !.expiresAt = {now + d},
                                                                 !.lastActivity = {now}]
       /\ aLast'.op = "refreshStarted" =>
              /\ svc.authState.refreshToken # {}
              /\ svc'.authState = svc.authState
       /\ aLast'.ret = "No refresh token available" =>
              /\ svc.authState.refreshToken = {}
              /\ \A c \in calls' \ calls : c.kind # "refresh"]_vars

\* a refresh has succeeded on a session that logged in earlier: the login time is the old
\* one, the token is the other one, the activity is of now
RefreshReplacesOnlyTokenExpiryActivity_witness ==
    /\ aLast.op = "refreshSucceeded"
    /\ svc.authState.isAuthenticated
    /\ svc.authState.refreshToken # {}
    /\ svc.authState.user = {responseUser}
    /\ svc.authState.lastActivity = {now}
    /\ \E l \in svc.authState.loginTime : l < now

\* C26: when a logout has just completed, a login() or refreshToken() that was suspended
\* across it and now resumes with a successful response leaves the state unauthenticated,
\* stores no authenticated snapshot and schedules no refresh timeout
LogoutIsFinal ==
    [][(aLast.loggedOut /\ aLast'.op \in {"refreshSucceeded", "loginSucceeded"}) =>
           /\ ~svc'.authState.isAuthenticated
           /\ \A j \in svc'.stored : ~j.isAuthenticated
           /\ svc'.timers = {}]_vars

\* C28: in every reachable state of the service a refresh timeout is pending only while
\* the state is authenticated: whatever made the state unauthenticated (a logout, a
\* refreshToken() called directly that failed) left no timeout pending
RefreshTimerOnlyWhileAuthenticated ==
    svc.timers # {} => svc.authState.isAuthenticated

(***************************************************************************)
(* AuthGuard.checkAuthentication: the properties.                          *)
(***************************************************************************)
\* C21: the decision does not change the AuthService: a step of the check whose decision
\* is false leaves the service as it was and passes false on, and the service changes
\* (and activity is recorded) only in a step whose decision is true, and then only in
\* lastActivity
DecisionLeavesSessionState ==
    [][LET isValid == validateAuthState(svc.authState, chk.route, now).valid IN
       /\ (chk.phase = "subscribed" /\ chk' # chk /\ ~isValid) =>
              /\ svc' = svc
              /\ chk'.touches = chk.touches
              /\ chk'.out[1] = "false"
       /\ (svc' # svc \/ chk'.touches # chk.touches) =>
              /\ chk.phase = "subscribed" /\ isValid
              /\ chk'.touches = chk.touches + 1
              /\ svc' = [svc EXCEPT !.authState =
                            [svc.authState EXCEPT !.lastActivity = {now}]]]_vars

\* the check of a session whose token has expired has passed false on, and the session
\* still has the last activity it had, which is not of now
DecisionLeavesSessionState_witness ==
    /\ chk.phase = "done"
    /\ chk.first = {FALSE}
    /\ chk.out = <<"false">>
    /\ chk.failures = 1
    /\ chk.touches = 0
    /\ svc.authState.isAuthenticated
    /\ svc.authState.lastActivity = {GuardNow - maxInactiveTime}
    /\ isTokenExpired(svc.authState.expiresAt, now)

\* C27: one check of a valid state records activity once and passes one true on: at no
\* time has the check called updateLastActivity() more than once, and when it is over and
\* its first decision was true, true is all its subscriber got
CheckAllowsOnceTouchesOnce ==
    /\ chk.touches <= 1
    /\ (chk.phase = "done" /\ chk.first = {TRUE}) =>
           chk.out = <<"true">> /\ chk.touches = 1

(***************************************************************************)
(* NotificationService: the property.                                      *)
(***************************************************************************)
\* C29: the list never holds more than maxNotifications notifications, and a notification
\* added with a duration above 0 is in the list only while its duration has not elapsed
NotificationsAutoDismissed ==
    /\ Len(notifications) <= maxNotifications
    /\ \A i \in 1 .. Len(notifications) :
           notifications[i].duration > 0 =>
               now < notifications[i].timestamp + notifications[i].duration

(***************************************************************************)
(* ExtendedApiService: the property.                                       *)
(***************************************************************************)
\* C30: the loading flag is true exactly while the HTTP Observable of at least one
\* executeRequest() call is open
LoadingWhileInFlight ==
    loadingSubject <=> \E r \in requests : r.phase = "requesting"
====
